---- MODULE Spec2Model ----
(***************************************************************************)
(* A model of the maction library (src/src/index.ts): createPrefix,        *)
(* createMaction and matchableReducerFactory, together with the user code  *)
(* its README documents (action creators, the top-level reducer).          *)
(*                                                                         *)
(* JavaScript values are modelled as follows.                              *)
(*   - a string is a sequence of one-character strings;                    *)
(*   - an argument list is a sequence: <<>> is a call with no arguments;   *)
(*   - an action is a record with a type field and, when it carries a      *)
(*     payload, a value field (a field holding undefined is left out);     *)
(*   - a function object is named by an identifier; the heap fns maps each *)
(*     function object to its own properties;                              *)
(*   - a call returns a record: threw says whether it ended by an          *)
(*     exception, invokes lists the action creators whose body ran.        *)
(***************************************************************************)
EXTENDS Integers, Sequences, FiniteSets, TLC

VARIABLES
    fns,        \* heap: function object -> its own properties (matches)
    bound,      \* user bindings: what createMaction returned for each creator
    wraps,      \* history: how often createMaction was applied (0, 1, 2 = more)
    invoked,    \* per action creator: how often its body has run
    calls,      \* history: normal calls the user made of each creator
    matched,    \* history: matches calls the user made on each creator
    prefixer,   \* the closure returned by the latest createPrefix call
    registry,   \* the paired reducers of the reducer module, in test order
    last        \* the latest operation: its inputs and what it returned

vars == <<fns, bound, wraps, invoked, calls, matched, prefixer, registry, last>>

-----------------------------------------------------------------------------
(* Bounds of the model. *)

MaxLen == 2        \* longest prefix or label drawn in SpecPrefix
MaxInvoke == 2     \* total runs of action creator bodies in Spec
MaxPairs == 2      \* paired reducers registered in SpecApp
MaxAppInvoke == 3  \* total runs of action creator bodies in SpecApp

-----------------------------------------------------------------------------
(* Values. *)

None == "none"          \* no binding / no closure yet
NoProp == "no-property" \* the property is absent from the function object
PlainObject == "plain-object" \* an object that is not a function
NoPrefixer == [none |-> TRUE] \* createPrefix has not been called yet

Chars == {"A", "_", " "}

Strings == UNION {[1..n -> Chars] : n \in 0..MaxLen}

\* Argument lists of the calls that are drawn: no argument, or one number.
ArgLists == {<<>>, <<5>>}

\* Arithmetic on JavaScript numbers, where undefined operands give NaN.
Num(n) == [num |-> n]
NaN == [nan |-> TRUE]

-----------------------------------------------------------------------------
(* createPrefix: a closure over prefix; applying it concatenates. *)

createPrefix(prefix) == [prefix |-> prefix]

\* A variant that puts a separator between prefix and label.
withPrefixSeparated(closure, actionType) ==
    closure.prefix \o <<"_">> \o actionType

withPrefix(closure, actionType) == closure.prefix \o actionType

-----------------------------------------------------------------------------
(* The action creators user code passes in (README).                       *)

ActionCreators == {"increment", "counterInc", "collide", "strict"}

\* The type each creator writes into its action.
ActionType(c) ==
    CASE c = "increment"  -> <<"I">>
      [] c = "counterInc" -> withPrefix(createPrefix(<<"C", "_">>), <<"I">>)
      [] c = "collide"    -> withPrefix(createPrefix(<<"C">>), <<"_", "I">>)
      [] c = "strict"     -> <<"S">>

\* The body of an action creator applied to an argument list.  "strict"
\* reads a property of its first argument and so throws without one.
ActionCreatorBody(c, args) ==
    IF c = "strict" /\ args = <<>>
    THEN [threw |-> TRUE, error |-> "TypeError: reading a property of undefined"]
    ELSE IF args = <<>>
         THEN [threw |-> FALSE, action |-> [type |-> ActionType(c)]]
         ELSE [threw |-> FALSE,
               action |-> [type |-> ActionType(c), value |-> args[1]]]

\* Candidate actions handed to matches and to reducers.
Candidates ==
    { [type |-> <<"I">>], [type |-> <<"I">>, value |-> 5],
      [type |-> <<"C", "_", "I">>, value |-> 5],
      [type |-> <<"S">>, value |-> 5],
      [type |-> <<"D">>] }

-----------------------------------------------------------------------------
(* Calling a value: every function object of the heap is one of the        *)
(* user's action creators, so its body is that creator's; calling anything *)
(* else is a TypeError.                                                    *)

Invoke(f, args) ==
    IF f \notin ActionCreators
    THEN [threw |-> TRUE, error |-> "TypeError: not a function",
          invokes |-> <<>>]
    ELSE LET r == ActionCreatorBody(f, args)
         IN  IF r.threw
             THEN [threw |-> TRUE, error |-> r.error, invokes |-> <<f>>]
             ELSE [threw |-> FALSE, action |-> r.action, invokes |-> <<f>>]

(* createMaction: Object.assign(actionCreator, {matches}) writes matches   *)
(* onto actionCreator itself and returns actionCreator.  The closure       *)
(* matches captures actionCreator; the heap stores the captured object.    *)

\* Variants of createMaction, each with one plausible slip.
\* Object.assign with its arguments swapped: the result is the plain object
\* holding matches, and actionCreator is left as it was.
createMactionPlain(h, actionCreator) ==
    [ heap |-> h, result |-> PlainObject, threw |-> FALSE, invokes |-> <<>> ]

\* Reads the reference type once, when wrapping.
createMactionEager(h, actionCreator) ==
    LET ref == Invoke(actionCreator, <<>>)
    IN  [ heap    |-> [h EXCEPT ![actionCreator] = [matches |-> actionCreator]],
          result  |-> actionCreator,
          threw   |-> FALSE,
          invokes |-> ref.invokes ]

\* Writes matches where every function object inherits it.
createMactionShared(h, actionCreator) ==
    [ heap    |-> [f \in DOMAIN h |-> [matches |-> actionCreator]],
      result  |-> actionCreator,
      threw   |-> FALSE,
      invokes |-> <<>> ]

\* Refuses a type that a wrapped creator uses already.
createMactionUnique(h, actionCreator) ==
    IF \E f \in DOMAIN h \ {actionCreator} :
          h[f].matches # NoProp /\ ActionType(f) = ActionType(actionCreator)
    THEN [ heap |-> h, result |-> actionCreator, threw |-> TRUE,
           invokes |-> <<>> ]
    ELSE [ heap    |-> [h EXCEPT ![actionCreator] = [matches |-> actionCreator]],
           result  |-> actionCreator,
           threw   |-> FALSE,
           invokes |-> <<>> ]

\* Refuses a creator that carries matches already.
createMactionGuarded(h, actionCreator) ==
    IF h[actionCreator].matches # NoProp
    THEN [ heap |-> h, result |-> actionCreator, threw |-> TRUE,
           invokes |-> <<>> ]
    ELSE [ heap    |-> [h EXCEPT ![actionCreator] = [matches |-> actionCreator]],
           result  |-> actionCreator,
           threw   |-> FALSE,
           invokes |-> <<>> ]

createMaction(h, actionCreator) ==
    [ heap    |-> [h EXCEPT ![actionCreator] = [matches |-> actionCreator]],
      result  |-> actionCreator,
      threw   |-> FALSE,
      invokes |-> <<>> ]

(* m.matches(action): action.type === actionCreator().type                 *)

\* Variants of matches, each with one plausible slip.
\* Compares the whole action with the reference action.
matchesDeep(h, m, action) ==
    LET ref == Invoke(h[m].matches, <<>>)
    IN  IF ref.threw
        THEN [threw |-> TRUE, error |-> ref.error, invokes |-> ref.invokes]
        ELSE [threw |-> FALSE, value |-> (action = ref.action),
              invokes |-> ref.invokes]

\* Catches the creator's failure and answers false.
matchesSwallow(h, m, action) ==
    LET ref == Invoke(h[m].matches, <<>>)
    IN  IF ref.threw
        THEN [threw |-> FALSE, value |-> FALSE, invokes |-> ref.invokes]
        ELSE [threw |-> FALSE, value |-> (action.type = ref.action.type),
              invokes |-> ref.invokes]

\* Reads actionCreator.type without calling actionCreator: undefined.
matchesUncalled(h, m, action) ==
    [threw |-> FALSE, value |-> FALSE, invokes |-> <<>>]

matches(h, m, action) ==
    IF m \notin DOMAIN h \/ h[m].matches = NoProp
    THEN [threw |-> TRUE, error |-> "TypeError: not a function",
          invokes |-> <<>>]
    ELSE LET actionCreator == h[m].matches
             ref == Invoke(actionCreator, <<>>)
         IN  IF ref.threw
             THEN [threw |-> TRUE, error |-> ref.error,
                   invokes |-> ref.invokes]
             ELSE [threw |-> FALSE,
                   value |-> (action.type = ref.action.type),
                   invokes |-> ref.invokes]

-----------------------------------------------------------------------------
(* Bookkeeping shared by the actions. *)

RECURSIVE Count(_, _)
Count(seq, c) ==
    IF seq = <<>> THEN 0
    ELSE (IF Head(seq) = c THEN 1 ELSE 0) + Count(Tail(seq), c)

Ran(inv, seq) == [c \in ActionCreators |-> inv[c] + Count(seq, c)]

RECURSIVE SumOver(_, _)
SumOver(f, S) ==
    IF S = {} THEN 0
    ELSE LET c == CHOOSE x \in S : TRUE IN f[c] + SumOver(f, S \ {c})

TotalInvoked == SumOver(invoked, ActionCreators)

Callee(c) == IF bound[c] = None THEN c ELSE bound[c]

-----------------------------------------------------------------------------
(* State machine of Spec: user code wraps, calls and matches.              *)

Init ==
    /\ fns = [c \in ActionCreators |-> [matches |-> NoProp]]
    /\ bound = [c \in ActionCreators |-> None]
    /\ wraps = [c \in ActionCreators |-> 0]
    /\ invoked = [c \in ActionCreators |-> 0]
    /\ calls = [c \in ActionCreators |-> 0]
    /\ matched = [c \in ActionCreators |-> 0]
    /\ prefixer = NoPrefixer
    /\ registry = <<>>
    /\ last = [op |-> "none"]

\* const m = createMaction(c), also on a creator that is wrapped already.
CreateMaction(c) ==
    LET r == createMaction(fns, Callee(c))
    IN  /\ fns' = r.heap
        /\ bound' = IF r.threw THEN bound ELSE [bound EXCEPT ![c] = r.result]
        /\ wraps' = IF r.threw THEN wraps
                    ELSE [wraps EXCEPT ![c] = IF @ = 0 THEN 1 ELSE 2]
        /\ invoked' = Ran(invoked, r.invokes)
        /\ last' = [op |-> "wrap", c |-> c, given |-> Callee(c),
                    result |-> r.result, threw |-> r.threw,
                    before |-> fns, invokes |-> r.invokes]
        /\ UNCHANGED <<calls, matched, prefixer, registry>>

\* A normal call c(...args), through the binding once c is wrapped.
Call(c, args) ==
    /\ TotalInvoked < MaxInvoke
    /\ LET r == Invoke(Callee(c), args)
       IN  /\ invoked' = Ran(invoked, r.invokes)
           /\ last' = [op |-> "call", c |-> c, args |-> args,
                       wrapped |-> (bound[c] # None), ret |-> r]
    /\ calls' = [calls EXCEPT ![c] = @ + 1]
    /\ UNCHANGED <<fns, bound, wraps, matched, prefixer, registry>>

\* m.matches(a) on a wrapped creator.
Matches(c, a) ==
    /\ bound[c] # None
    /\ TotalInvoked < MaxInvoke
    /\ LET r == matches(fns, bound[c], a)
       IN  /\ invoked' = Ran(invoked, r.invokes)
           /\ last' = [op |-> "matches", c |-> c, action |-> a,
                       wraps |-> wraps[c], ret |-> r]
    /\ matched' = [matched EXCEPT ![c] = @ + 1]
    /\ UNCHANGED <<fns, bound, wraps, calls, prefixer, registry>>

Next ==
    \/ \E c \in ActionCreators : CreateMaction(c)
    \/ \E c \in ActionCreators, args \in ArgLists : Call(c, args)
    \/ \E c \in ActionCreators, a \in Candidates : Matches(c, a)

Spec == Init /\ [][Next]_vars

-----------------------------------------------------------------------------
(* State machine of SpecPrefix: createPrefix and the closures it returns.  *)

\* const withPrefix = createPrefix(p)
CreatePrefix(p) ==
    /\ prefixer' = [closure |-> createPrefix(p), given |-> p]
    /\ last' = [op |-> "createPrefix", prefix |-> p]
    /\ UNCHANGED <<fns, bound, wraps, invoked, calls, matched, registry>>

\* withPrefix(s); again tells that the call before it was the same call.
WithPrefix(s) ==
    /\ prefixer # NoPrefixer
    /\ last' = [op |-> "withPrefix", prefix |-> prefixer.given, label |-> s,
                result |-> withPrefix(prefixer.closure, s),
                again |-> /\ last.op = "withPrefix"
                          /\ last.label = s
                          /\ last.prefix = prefixer.given]
    /\ UNCHANGED <<fns, bound, wraps, invoked, calls, matched, prefixer, registry>>

NextPrefix ==
    \/ \E p \in Strings : CreatePrefix(p)
    \/ \E s \in Strings : WithPrefix(s)

SpecPrefix == Init /\ [][NextPrefix]_vars

-----------------------------------------------------------------------------
(* matchableReducerFactory<State>() returns reduceForActionBuilder<State>(),*)
(* whose result takes (actionCreator, reduce) and returns reduce.           *)

\* A variant that reads the creator's type in order to validate the pairing.
reduceForActionBuilderChecked(actionCreator, reduce) ==
    LET ref == Invoke(actionCreator, <<>>)
    IN  [result |-> reduce, threw |-> ref.threw, invokes |-> ref.invokes]

reduceForActionBuilder(actionCreator, reduce) ==
    [result |-> reduce, threw |-> FALSE, invokes |-> <<>>]

matchableReducerFactory(actionCreator, reduce) ==
    reduceForActionBuilder(actionCreator, reduce)

\* The reduce functions user code passes in (README).
Reducers == {"add", "reset"}

StoreStates == {Num(0), Num(10)}

ReducerBody(reduce, state, action) ==
    CASE reduce = "add" ->
            IF "num" \in DOMAIN state /\ "value" \in DOMAIN action
            THEN Num(state.num + action.value)
            ELSE NaN
      [] reduce = "reset" -> Num(0)

(* The README's top-level reducer: it tests the matchers in turn and       *)
(* delegates to the paired reducer of the first that matches; hit is the   *)
(* position of that reducer, 0 when the state is returned as it is.        *)

RECURSIVE reducer(_, _, _, _, _)
reducer(h, reg, i, state, action) ==
    IF i > Len(reg)
    THEN [threw |-> FALSE, state |-> state, hit |-> 0, invokes |-> <<>>]
    ELSE LET m == matches(h, reg[i].maction, action)
         IN  IF m.threw
             THEN [threw |-> TRUE, hit |-> 0, invokes |-> m.invokes]
             ELSE IF m.value
             THEN [threw |-> FALSE,
                   state |-> ReducerBody(reg[i].reducer, state, action),
                   hit |-> i, invokes |-> m.invokes]
             ELSE LET rest == reducer(h, reg, i + 1, state, action)
                  IN  [rest EXCEPT !.invokes = m.invokes \o @]

-----------------------------------------------------------------------------
(* State machine of SpecApp: the reducer module of an application whose    *)
(* actions module has wrapped every action creator once.                   *)

RECURSIVE WrapAll(_, _)
WrapAll(h, S) ==
    IF S = {} THEN h
    ELSE LET c == CHOOSE x \in S : TRUE
         IN  WrapAll(createMaction(h, c).heap, S \ {c})

InitApp ==
    /\ fns = WrapAll([c \in ActionCreators |-> [matches |-> NoProp]],
                     ActionCreators)
    /\ bound = [c \in ActionCreators |->
                  createMaction([x \in ActionCreators |-> [matches |-> NoProp]],
                                c).result]
    /\ wraps = [c \in ActionCreators |-> 1]
    /\ invoked = [c \in ActionCreators |-> 0]
    /\ calls = [c \in ActionCreators |-> 0]
    /\ matched = [c \in ActionCreators |-> 0]
    /\ prefixer = NoPrefixer
    /\ registry = <<>>
    /\ last = [op |-> "none"]

\* const r = reduceForAction(m, reduce), kept for the top-level reducer.
ReduceForAction(c, reduce) ==
    /\ bound[c] # None
    /\ Len(registry) < MaxPairs
    /\ LET r == matchableReducerFactory(bound[c], reduce)
       IN  /\ registry' = Append(registry, [maction |-> bound[c], of |-> c,
                                            given |-> reduce,
                                            reducer |-> r.result])
           /\ invoked' = Ran(invoked, r.invokes)
           /\ last' = [op |-> "pair", c |-> c, given |-> reduce, ret |-> r]
    /\ UNCHANGED <<fns, bound, wraps, calls, matched, prefixer>>

\* The paired reducer called directly: registry[i].reducer(state, a).
ApplyPaired(i, state, a) ==
    /\ i \in 1..Len(registry)
    /\ last' = [op |-> "apply", i |-> i, state |-> state, action |-> a,
                result |-> ReducerBody(registry[i].reducer, state, a)]
    /\ UNCHANGED <<fns, bound, wraps, invoked, calls, matched, prefixer, registry>>

\* The store hands (state, a) to the top-level reducer.
Dispatch(state, a) ==
    /\ TotalInvoked < MaxAppInvoke
    /\ LET r == reducer(fns, registry, 1, state, a)
       IN  /\ invoked' = Ran(invoked, r.invokes)
           /\ last' = [op |-> "dispatch", state |-> state, action |-> a,
                       ret |-> r]
    /\ UNCHANGED <<fns, bound, wraps, calls, matched, prefixer, registry>>

NextApp ==
    \/ \E c \in ActionCreators, reduce \in Reducers : ReduceForAction(c, reduce)
    \/ \E i \in 1..MaxPairs, s \in StoreStates, a \in Candidates :
          ApplyPaired(i, s, a)
    \/ \E s \in StoreStates, a \in Candidates : Dispatch(s, a)

SpecApp == InitApp /\ [][NextApp]_vars

-----------------------------------------------------------------------------
(* Vocabulary of the properties. *)

\* c returns an action when it is called with no arguments.
ReturnsWithoutArgs(c) == ~ActionCreatorBody(c, <<>>).threw

\* The type c writes does not depend on its arguments.
TypeIsArgumentInvariant(c) ==
    \A a1, a2 \in ArgLists :
        LET r1 == ActionCreatorBody(c, a1)
            r2 == ActionCreatorBody(c, a2)
        IN  (~r1.threw /\ ~r2.threw) => r1.action.type = r2.action.type

\* c().type
FixedType(c) == ActionCreatorBody(c, <<>>).action.type

Wrapped == {c \in ActionCreators : bound[c] # None}

IsMatch(r) == ~r.threw /\ r.value

\* What a call returned, without the record of which bodies ran.
SameOutcome(r, body) ==
    /\ r.threw = body.threw
    /\ r.threw => r.error = body.error
    /\ ~r.threw => r.action = body.action

-----------------------------------------------------------------------------
(* C1: for a creator c whose type is argument-invariant and that returns   *)
(* when called without arguments, matches(a) is TRUE exactly when a.type   *)
(* equals c().type; it answers with a boolean, never with an error, also   *)
(* for a candidate with no field besides type or with another type, and    *)
(* two candidates of the same type get the same answer whatever their      *)
(* other fields are.                                                       *)
C1_MatchesIffSameType ==
    /\ (/\ last.op = "matches"
        /\ ReturnsWithoutArgs(last.c)
        /\ TypeIsArgumentInvariant(last.c))
       => /\ ~last.ret.threw
          /\ last.ret.value \in BOOLEAN
          /\ last.ret.value <=> (last.action.type = FixedType(last.c))
    /\ \A c \in Wrapped : \A a, b \in Candidates :
          (ReturnsWithoutArgs(c) /\ a.type = b.type)
          => matches(fns, bound[c], a).value = matches(fns, bound[c], b).value

C1_Witness ==
    /\ last.op = "matches"
    /\ last.c = "counterInc"
    /\ last.action = [type |-> <<"C", "_", "I">>, value |-> 5]
    /\ last.ret.value = TRUE
    /\ matched["increment"] = 1
    /\ matches(fns, bound["counterInc"], [type |-> <<"I">>]).value = FALSE

(* C2: a normal call of a wrapped creator returns what the creator itself  *)
(* returns for the same arguments (the same action, or the same failure),  *)
(* before and after any number of matches calls.                           *)
C2_WrapperIsTransparent ==
    (last.op = "call" /\ last.wrapped)
    => SameOutcome(last.ret, ActionCreatorBody(last.c, last.args))

C2_Witness ==
    /\ last.op = "call"
    /\ last.wrapped
    /\ last.args = <<5>>
    /\ matched[last.c] >= 1
    /\ last.ret.action = [type |-> <<"C", "_", "I">>, value |-> 5]

(* C5: when the creator fails on a call without arguments, every matches   *)
(* call fails with that same error for every candidate, while             *)
(* createMaction succeeded on it and a normal call with an argument still  *)
(* returns its action.                                                     *)
C5_MatchesPropagatesFailure ==
    \A c \in ActionCreators :
        ~ReturnsWithoutArgs(c) =>
            /\ (last.op = "matches" /\ last.c = c)
               => /\ last.ret.threw
                  /\ last.ret.error = ActionCreatorBody(c, <<>>).error
            /\ (last.op = "wrap" /\ last.c = c)
               => (~last.threw /\ bound[c] = c)
            /\ (last.op = "call" /\ last.c = c /\ last.args # <<>>)
               => /\ ~last.ret.threw
                  /\ last.ret.action = ActionCreatorBody(c, last.args).action
            /\ c \in Wrapped
               => \A a \in Candidates : matches(fns, bound[c], a).threw

C5_Witness ==
    /\ last.op = "matches"
    /\ last.c = "strict"
    /\ last.ret.threw
    /\ last.action = [type |-> <<"S">>, value |-> 5]
    /\ calls["strict"] = 1

(* C6: the body of every creator has run exactly as often as the user      *)
(* called it normally plus called matches on it: each matches call runs it *)
(* once (nothing is memoized), createMaction and the reducer pairing run   *)
(* it not at all.                                                          *)
C6_OneInvocationPerMatches ==
    /\ \A c \in ActionCreators : invoked[c] = calls[c] + matched[c]
    /\ last.op = "matches" => last.ret.invokes = <<last.c>>
    /\ last.op = "wrap" => last.invokes = <<>>
    /\ \A c \in Wrapped : \A reduce \in Reducers :
          matchableReducerFactory(bound[c], reduce).invokes = <<>>

C6_Witness ==
    /\ last.op = "matches"
    /\ matched[last.c] = 2
    /\ invoked[last.c] = 2
    /\ wraps[last.c] = 1

(* C7 as stated: createMaction returns a value distinct from the creator   *)
(* it was given and leaves that creator without matches.                   *)
C7_AsStated ==
    last.op = "wrap"
    => /\ last.result # last.given
       /\ fns[last.given] = last.before[last.given]

(* C7 amended: createMaction returns the very creator it was given, with   *)
(* matches written onto it; no other function object changes and no        *)
(* creator body runs.                                                      *)
C7_ReturnsSameObjectWithMatches ==
    last.op = "wrap"
    => /\ ~last.threw
       /\ last.result = last.given
       /\ fns[last.given].matches = last.given
       /\ \A f \in ActionCreators \ {last.given} : fns[f] = last.before[f]
       /\ last.invokes = <<>>

C7_Witness ==
    /\ last.op = "wrap"
    /\ last.before[last.given].matches = NoProp
    /\ fns[last.given].matches = last.given
    /\ \E f \in ActionCreators \ {last.given} : fns[f].matches = NoProp

(* C9: two wrapped creators (each returning without arguments) of          *)
(* different types never both match an action; two of the same type both   *)
(* match every action of that type; and wrapping never fails, whatever     *)
(* types are in use already.                                               *)
C9_NoUniquenessEnforced ==
    /\ \A c1, c2 \in Wrapped : \A a \in Candidates :
          (c1 # c2 /\ ReturnsWithoutArgs(c1) /\ ReturnsWithoutArgs(c2)) =>
              LET r1 == matches(fns, bound[c1], a)
                  r2 == matches(fns, bound[c2], a)
              IN  /\ FixedType(c1) # FixedType(c2)
                     => ~(IsMatch(r1) /\ IsMatch(r2))
                  /\ (FixedType(c1) = FixedType(c2) /\ a.type = FixedType(c1))
                     => (IsMatch(r1) /\ IsMatch(r2))
    /\ last.op = "wrap" => ~last.threw

C9_Witness ==
    /\ {"counterInc", "collide"} \subseteq Wrapped
    /\ matched["counterInc"] = 1
    /\ last.op = "matches"
    /\ last.c = "collide"
    /\ last.action.type = FixedType("counterInc")
    /\ IsMatch(last.ret)

(* C10: wrapping a wrapped creator again changes nothing: the second       *)
(* wrapping succeeds, matches answers as after the first wrapping and      *)
(* runs the creator once, and normal calls return what the creator does.   *)
C10_WrappingIsIdempotent ==
    /\ \A c \in Wrapped :
          LET again == createMaction(fns, bound[c])
          IN  /\ ~again.threw
              /\ \A a \in Candidates :
                    matches(again.heap, again.result, a)
                        = matches(fns, bound[c], a)
              /\ \A args \in ArgLists :
                    SameOutcome(Invoke(again.result, args),
                                ActionCreatorBody(c, args))
    /\ (last.op = "matches" /\ last.wraps = 2)
       => /\ last.ret.invokes = <<last.c>>
          /\ ReturnsWithoutArgs(last.c)
             => last.ret.value = (last.action.type = FixedType(last.c))
    /\ (last.op = "call" /\ wraps[last.c] = 2)
       => SameOutcome(last.ret, ActionCreatorBody(last.c, last.args))

C10_Witness ==
    /\ last.op = "matches"
    /\ last.wraps = 2
    /\ last.ret.invokes = <<last.c>>
    /\ last.ret.value = TRUE

-----------------------------------------------------------------------------
(* C4: withPrefix(s) of createPrefix(p) is p followed by s, character by   *)
(* character and nothing else: nothing is trimmed, escaped or inserted,    *)
(* empty strings and repeated labels included, whatever calls came before. *)
C4_PrefixIsConcatenation ==
    last.op = "withPrefix"
    => LET p == last.prefix
           s == last.label
           r == last.result
       IN  /\ Len(r) = Len(p) + Len(s)
           /\ \A i \in 1..Len(p) : r[i] = p[i]
           /\ \A i \in 1..Len(s) : r[Len(p) + i] = s[i]

C4_Witness ==
    /\ last.op = "withPrefix"
    /\ last.again
    /\ last.prefix = <<"A", "_">>
    /\ last.label = <<" ">>
    /\ last.result = <<"A", "_", " ">>

-----------------------------------------------------------------------------
(* C3: the pairing returns the reduce function it was given, unchanged,    *)
(* and runs no creator while doing so; the paired reducer applied to       *)
(* (state, action) yields what reduce yields, also for an action its       *)
(* creator does not match.                                                 *)
C3_PairingReturnsReduce ==
    /\ \A i \in 1..Len(registry) : registry[i].reducer = registry[i].given
    /\ last.op = "pair"
       => /\ ~last.ret.threw
          /\ last.ret.result = last.given
          /\ last.ret.invokes = <<>>
    /\ last.op = "apply"
       => last.result
            = ReducerBody(registry[last.i].given, last.state, last.action)

C3_Witness ==
    /\ last.op = "apply"
    /\ registry[last.i].of = "counterInc"
    /\ registry[last.i].given = "add"
    /\ last.state = Num(10)
    /\ last.action = [type |-> <<"I">>, value |-> 5]
    /\ last.result = Num(15)

\* Every registered creator returns without arguments and no two share a type.
RegistryWellFormed ==
    /\ \A i \in 1..Len(registry) : ReturnsWithoutArgs(registry[i].of)
    /\ \A i, j \in 1..Len(registry) :
          i # j => FixedType(registry[i].of) # FixedType(registry[j].of)

====
